---- MODULE Spec2Model ----
(***************************************************************************)
(* GA4 traffic simulator (src/simulator.py).                               *)
(*                                                                         *)
(* Three specifications share the definitions below:                       *)
(*   Spec        one call of simulate_one_session, one action per event    *)
(*               posted to the transport;                                  *)
(*   SpecRun     the loop of main(), one action per call of                *)
(*               simulate_one_session and one per time.sleep;              *)
(*   SpecChoice  weighted_choice as a pure function of the option list and *)
(*               of the value random.uniform returned.                     *)
(*                                                                         *)
(* Python values: None is the string "None"; a dict is a record (a         *)
(* function on strings), a list is a sequence; prices are in cents so that *)
(* price, tax and value stay integers; times are in milliseconds.          *)
(***************************************************************************)
EXTENDS Integers, Sequences, FiniteSets, TLC

VARIABLES
    pc,                         \* position in simulate_one_session / main
    SESSION_NUMBER_BY_CLIENT,   \* src/simulator.py:181
    now,                        \* the wall clock, in ms
    frame,                      \* the locals of the running simulate_one_session
    trace,                      \* the records posted in this session, in order,
                                \*   without their engagement_time_msec draw
    last,                       \* the last record posted, in full
    uuids,                      \* number of uuid4() values generated so far
    loop_i,                     \* main(): iterations of the for loop completed
    started,                    \* main(): one entry per session started in the run
    options, r, chosen,         \* weighted_choice: argument, random.uniform value, outcome
    env,                        \* the environment variables the process was started with
    call                        \* next_session_number: the last call's argument and result

vars == <<pc, SESSION_NUMBER_BY_CLIENT, now, frame, trace, last, uuids,
          loop_i, started, options, r, chosen, env, call>>

None == "None"

(***************************************************************************)
(* Bounds of the model.                                                    *)
(***************************************************************************)
USER_POOL_SIZE == 2
SESSIONS_PER_RUN == 3
MaxOptions == 3
MaxWeight == 2
MaxPostMs == 1000
MaxCalls == 6

(***************************************************************************)
(* Python helpers.                                                         *)
(***************************************************************************)
\* dict.get(key): the value, or None when the key is missing
Get(d, key) == IF key \in DOMAIN d THEN d[key] ELSE None

\* truthiness of an Optional[str] / Optional[dict]
Truthy(x) == x # None /\ x # ""

\* random.randint(lo, hi): the two ends of the range stand for the draw
RandInt(lo, hi) == {lo, hi}

\* random.choice(seq): the first and the last element stand for the draw
random_choice(seq) == {seq[1], seq[Len(seq)]}

\* random.random() < p, for 0 < p < 1: either outcome
Coin == BOOLEAN

\* d1 updated with d2 (dict.update): d2's keys win
Update(d1, d2) ==
    [k \in DOMAIN d1 \cup DOMAIN d2 |-> IF k \in DOMAIN d2 THEN d2[k] ELSE d1[k]]

(***************************************************************************)
(* Catalog.                                                                *)
(***************************************************************************)
BASE_DOMAIN == "https://www.lovesdata-test.com"

PAGES == << "/", "/blog/", "/blog/google-analytics-4-course/", "/blog/ga4-events/",
            "/training/", "/courses/", "/contact/", "/about/" >>

\* path.strip("/").title() or "Home"
PageTitle(path) ==
    CASE path = "/" -> "Home"
      [] path = "/blog/" -> "Blog"
      [] path = "/blog/google-analytics-4-course/" -> "Blog/Google-Analytics-4-Course"
      [] path = "/blog/ga4-events/" -> "Blog/Ga4-Events"
      [] path = "/training/" -> "Training"
      [] path = "/courses/" -> "Courses"
      [] path = "/contact/" -> "Contact"
      [] path = "/about/" -> "About"

PRODUCTS == <<
    [id |-> "sku_201", name |-> "GA4 Complete Course", category |-> "Courses", price |-> 22500],
    [id |-> "sku_202", name |-> "Google Tag Manager Course", category |-> "Courses", price |-> 22500],
    [id |-> "sku_203", name |-> "Looker Studio Course", category |-> "Courses", price |-> 12500],
    [id |-> "sku_204", name |-> "Google Ads Fundamentals Course", category |-> "Courses", price |-> 22500] >>

CURRENCIES == << "AUD", "USD" >>
LANGUAGES == << "en-au", "en-us", "en-gb", "de-de", "fr-fr" >>

TRAFFIC_SOURCES == <<
    [type |-> "utm", source |-> "google", medium |-> "organic", campaign |-> None, weight |-> 25, referrer |-> "https://www.google.com/"],
    [type |-> "utm", source |-> "bing", medium |-> "organic", campaign |-> None, weight |-> 7, referrer |-> "https://www.bing.com/"],
    [type |-> "utm", source |-> "yahoo", medium |-> "organic", campaign |-> None, weight |-> 3, referrer |-> "https://search.yahoo.com/"],
    [type |-> "utm", source |-> "duckduckgo", medium |-> "organic", campaign |-> None, weight |-> 3, referrer |-> "https://duckduckgo.com/"],
    [type |-> "utm", source |-> "google", medium |-> "cpc", campaign |-> "spring_promotion", weight |-> 8, referrer |-> None],
    [type |-> "utm", source |-> "google", medium |-> "cpc", campaign |-> "performance_max", weight |-> 6, referrer |-> None],
    [type |-> "utm", source |-> "google", medium |-> "cpc", campaign |-> "branded", weight |-> 5, referrer |-> None],
    [type |-> "utm", source |-> "newsletter", medium |-> "email", campaign |-> "monthly_update", weight |-> 8, referrer |-> None],
    [type |-> "referral", source |-> "facebook.com", weight |-> 5, referrer |-> "https://facebook.com/"],
    [type |-> "referral", source |-> "l.instagram.com", weight |-> 3, referrer |-> "https://l.instagram.com/"],
    [type |-> "utm", source |-> "facebook.com", medium |-> "paid_social", campaign |-> "winter_promotion", weight |-> 3, referrer |-> "https://l.facebook.com/"],
    [type |-> "referral", source |-> "linkedin.com", weight |-> 2, referrer |-> "https://www.linkedin.com/"],
    [type |-> "utm", source |-> "linkedin.com", medium |-> "paid_social", campaign |-> "summer_promotion", weight |-> 2, referrer |-> "https://www.linkedin.com/"],
    [type |-> "referral", source |-> "benjaminmangold.com", weight |-> 1, referrer |-> "https://benjaminmangold.com/"],
    [type |-> "referral", source |-> "youtube.com", weight |-> 2, referrer |-> "https://www.youtube.com/"],
    [type |-> "referral", source |-> "chatgpt.com", weight |-> 2, referrer |-> "https://chatgpt.com/"],
    [type |-> "referral", source |-> "gemini.google.com", weight |-> 1, referrer |-> "https://gemini.google.com/"],
    [type |-> "direct", source |-> "(direct)", medium |-> "(none)", campaign |-> None, weight |-> 12, referrer |-> None],
    [type |-> "unknown", source |-> "chatgpt.com", medium |-> "(not set)", campaign |-> None, weight |-> 1, referrer |-> None] >>

(***************************************************************************)
(* weighted_choice.  The value r of random.uniform(0, total) is an input;  *)
(* the outcome is the index of the option returned, or 0 when the function *)
(* ends in options[-1] on an empty list (IndexError).                      *)
(***************************************************************************)
Weight(o) == IF "weight" \in DOMAIN o THEN o.weight ELSE 1

RECURSIVE Total(_, _)
Total(opts, i) == IF i > Len(opts) THEN 0 ELSE Weight(opts[i]) + Total(opts, i + 1)

RECURSIVE Walk(_, _, _, _)
Walk(opts, rv, i, upto) ==
    IF i > Len(opts) THEN Len(opts)
    ELSE IF upto + Weight(opts[i]) >= rv THEN i
    ELSE Walk(opts, rv, i + 1, upto + Weight(opts[i]))

weighted_choice(opts, rv) == Walk(opts, rv, 1, 0)

\* random.uniform(0, total): a value of [0, total], ends included
random_uniform(total) == 0 .. total

build_url_with_utms(path, src) ==
    [base |-> BASE_DOMAIN, path |-> path,
     query |-> << <<"utm_source", src.source>>, <<"utm_medium", src.medium>> >>
               \o (IF Truthy(Get(src, "campaign"))
                   THEN << <<"utm_campaign", src.campaign>> >> ELSE << >>)]

\* f"{BASE_DOMAIN}{path}"
BareUrl(path) == [base |-> BASE_DOMAIN, path |-> path, query |-> << >>]

(***************************************************************************)
(* Device profiles and the identity pool.                                  *)
(***************************************************************************)
DESKTOP_PROFILES == <<
    [kind |-> "desktop", user_agent |-> "Mozilla/5.0 (Macintosh; Intel Mac OS X 10_15_7) Chrome/122.0.0.0",
     screen_resolution |-> "2560x1440", platform |-> "MacIntel", os_hint |-> "macOS"],
    [kind |-> "desktop", user_agent |-> "Mozilla/5.0 (Windows NT 10.0; Win64; x64) Chrome/122.0.0.0",
     screen_resolution |-> "1920x1080", platform |-> "Win32", os_hint |-> "Windows"] >>

MOBILE_PROFILES == <<
    [kind |-> "mobile", user_agent |-> "Mozilla/5.0 (iPhone; CPU iPhone OS 17_2 like Mac OS X) Version/17.2",
     screen_resolution |-> "390x844", platform |-> "iPhone", os_hint |-> "iOS"],
    [kind |-> "mobile", user_agent |-> "Mozilla/5.0 (Linux; Android 14; Pixel 7) Chrome/122.0.0.0 Mobile",
     screen_resolution |-> "412x915", platform |-> "Linux armv8l", os_hint |-> "Android"] >>

\* random.random() < DESKTOP_SHARE, with 0.65 <= DESKTOP_SHARE <= 0.85: a profile
\* of either list; one profile of each list stands for the draw
pick_device_profile == {DESKTOP_PROFILES[1], MOBILE_PROFILES[Len(MOBILE_PROFILES)]}

\* the identities are opaque tokens; identity i is the i-th one made
make_ga_like_client_id(i) == i

CLIENT_ID_POOL == [i \in 1 .. USER_POOL_SIZE |-> make_ga_like_client_id(i)]

PoolIds == {CLIENT_ID_POOL[i] : i \in DOMAIN CLIENT_ID_POOL}

next_session_number_shared(counters, client_id) ==
    [c \in DOMAIN counters \cup {client_id} |->
        IF c \in DOMAIN counters THEN counters[c] + 1 ELSE 1]

next_session_number_reset(counters, client_id) ==
    [c \in DOMAIN counters \cup {client_id} |->
        IF c = client_id THEN 1 ELSE counters[c]]

\* the counters after next_session_number(client_id); the value returned is
\* the new counter of client_id
next_session_number(counters, client_id) ==
    LET old == IF client_id \in DOMAIN counters THEN counters[client_id] ELSE 0
    IN  [c \in DOMAIN counters \cup {client_id} |->
            IF c = client_id THEN old + 1 ELSE counters[c]]

\* int(datetime.now(tz=timezone.utc).timestamp()): whole seconds
SessionKey(ms) == ms \div 1000

random_sample_with_replacement(population, k) ==
    { [i \in 1 .. k |-> population[Len(population)]] }

\* random.sample(population, k): k distinct entries in some order; the last k
\* entries, in reverse list order, stand for the draw
random_sample(population, k) ==
    { [i \in 1 .. k |-> population[Len(population) + 1 - i]] }

Min(a, b) == IF a <= b THEN a ELSE b

(***************************************************************************)
(* Payloads.                                                               *)
(***************************************************************************)
micros_from_ms(ms) == ms * 1000

\* an Optional argument: Nothing is None, Some(x) is the value x
Nothing == << >>

Some(x) == << x >>

event_payload(client_id, events, timestamp_micros, user_properties) ==
    Update(
        Update([client_id |-> client_id, events |-> events],
               IF timestamp_micros # Nothing
               THEN [timestamp_micros |-> timestamp_micros[1]] ELSE << >>),
        IF user_properties # Nothing /\ DOMAIN user_properties[1] # {}
        THEN [user_properties |-> user_properties[1]] ELSE << >>)

\* what the transport is handed by send_mp: the JSON body and the User-Agent
Request(payload, user_agent) == [payload |-> payload, user_agent |-> user_agent]

\* a request without the engagement_time_msec draw of its event
Logged(req) ==
    LET ev == req.payload.events[1]
        kept == DOMAIN ev.params \ {"engagement_time_msec"}
    IN  [req EXCEPT !.payload.events =
            << [name |-> ev.name, params |-> [k \in kept |-> ev.params[k]]] >>]

(***************************************************************************)
(* simulate_one_session.  frame holds its locals; Post hands one request   *)
(* to send_mp, whose status and validation messages are only printed.      *)
(***************************************************************************)
NoFrame == [client_id |-> None]

\* An environment variable is unset (Nothing) or set to a string (Some),
\* and a string is a sequence of characters.
\* an environment with both credentials set, in debug mode
DebugEnv == [MEASUREMENT_ID |-> Some(<<"G", "1">>), API_SECRET |-> Some(<<"s">>),
             SIMULATOR_MODE |-> Some(<<"d", "e", "b", "u", "g">>)]

\* os.getenv(name, default)
getenv(value, default) == IF value = Nothing THEN default ELSE value[1]

Whitespace == {" ", "\t", "\n"}

RECURSIVE lstrip(_)
lstrip(s) ==
    IF s # << >> /\ Head(s) \in Whitespace THEN lstrip(Tail(s)) ELSE s

RECURSIVE rstrip(_)
rstrip(s) ==
    IF s # << >> /\ s[Len(s)] \in Whitespace
    THEN rstrip(SubSeq(s, 1, Len(s) - 1)) ELSE s

strip_nothing(s) == s

\* str.strip()
strip(s) == rstrip(lstrip(s))

\* str.lower(), on the letters the mode is written with
lower(s) ==
    [i \in DOMAIN s |->
        CASE s[i] = "D" -> "d" [] s[i] = "E" -> "e" [] s[i] = "B" -> "b"
          [] s[i] = "U" -> "u" [] s[i] = "G" -> "g" [] s[i] = "L" -> "l"
          [] s[i] = "I" -> "i" [] s[i] = "V" -> "v" [] OTHER -> s[i]]

\* line 10
MEASUREMENT_ID == strip(getenv(env.MEASUREMENT_ID, << >>))

\* line 11
API_SECRET == strip(getenv(env.API_SECRET, << >>))

\* line 12
SIMULATOR_MODE == lower(strip(getenv(env.SIMULATOR_MODE, <<"l", "i", "v", "e">>)))

\* what the endpoint may answer: a success or a non-success status, and a
\* body that is not JSON, or is JSON for: {}, an object without or with
\* validation messages, an object whose messages are strings, [], a
\* non-empty array
Responses ==
    [status : {204, 500},
     body : {[json |-> FALSE, type |-> "text", truthy |-> TRUE, messages |-> "none"],
             [json |-> TRUE, type |-> "dict", truthy |-> FALSE, messages |-> "none"],
             [json |-> TRUE, type |-> "dict", truthy |-> TRUE, messages |-> "none"],
             [json |-> TRUE, type |-> "dict", truthy |-> TRUE, messages |-> "dicts"],
             [json |-> TRUE, type |-> "dict", truthy |-> TRUE, messages |-> "strings"],
             [json |-> TRUE, type |-> "list", truthy |-> FALSE, messages |-> "none"],
             [json |-> TRUE, type |-> "list", truthy |-> TRUE, messages |-> "none"]}]

\* lines 194-200: the (status, data) send_mp returns for a response
send_mp(resp) ==
    [status |-> resp.status,
     data |-> IF SIMULATOR_MODE = <<"d", "e", "b", "u", "g">> /\ resp.body.json
              THEN Some(resp.body) ELSE Nothing]

\* lines 202-210: TRUE when print_validation(data) raises AttributeError,
\* at data.get (line 205) or at m.get (line 209)
print_validation(data) ==
    /\ data # Nothing
    /\ data[1].truthy
    /\ \/ data[1].type # "dict"
       \/ data[1].messages = "strings"

\* requests.post of line 193
Post(req) ==
    /\ trace' = Append(trace, Logged(req))
    /\ last' = req

\* lines 280-282 and their likes: the response is examined and the
\* function continues at next, or the exception leaves main()
Returned(next) ==
    \E raised \in {print_validation(send_mp(resp).data) : resp \in Responses} :
        pc' = IF raised THEN "crashed" ELSE next

\* base_ms + offset, as the timestamp_micros of a request
At(offset_ms) == micros_from_ms(frame.base_ms + offset_ms)

\* the offset of a posted request from the session base time, in ms
Offset(req) == req.payload.timestamp_micros \div 1000 - frame.base_ms

EventOf(req) == req.payload.events[1]

\* lines 232-265: keys, fixed context, sampled pages, acquisition
Prepare(client_id, lang, device, rv, paths) ==
    LET src == TRAFFIC_SOURCES[weighted_choice(TRAFFIC_SOURCES, rv)]
        counters == next_session_number(SESSION_NUMBER_BY_CLIENT, client_id)
        first_path == paths[1]
    IN  [client_id |-> client_id,
         ga_session_id |-> SessionKey(now),
         ga_session_number |-> counters[client_id],
         lang |-> lang,
         device |-> device,
         src |-> src,
         user_props |-> [simulator |-> [value |-> "ga4_traffic_sim"],
                         device_kind |-> [value |-> device.kind]],
         base_ms |-> now,
         paths |-> paths,
         first_url |-> IF src.type = "utm"
                       THEN build_url_with_utms(first_path, src)
                       ELSE BareUrl(first_path),
         page_referrer |-> CASE src.type = "utm" -> Get(src, "referrer")
                             [] src.type = "referral" ->
                                  IF Truthy(Get(src, "referrer")) THEN src.referrer
                                  ELSE <<"https://", src.source, "/">>
                             [] OTHER -> None,
         next_path |-> 2,
         t_cursor |-> 15000,
         product |-> None,
         currency |-> None]

\* the values of random.uniform(0, total) tried for the traffic source: one
\* per shape of entry (utm with referrer, utm with campaign, referral, utm
\* with campaign and referrer, direct, unknown)
SourceDraws == {0, 40, 66, 75, 90, 99}

SessionStartEngagement == 1

FirstPageViewEngagement == RandInt(50, 250)

ScrollEngagementFromZero == RandInt(0, 2500)

ScrollEngagement == RandInt(800, 2500)

PageViewEngagement == RandInt(200, 1200)

EcomEngagement == RandInt(150, 900)

CursorStepFromZero == RandInt(0, 8000)

CursorStep == RandInt(3000, 8000)

\* main() line 387 and simulate_one_session lines 232-265
StartSession ==
    /\ pc = "call"
    /\ \E client_id \in random_choice(CLIENT_ID_POOL),
          lang \in random_choice(LANGUAGES),
          device \in pick_device_profile,
          rv \in random_uniform(Total(TRAFFIC_SOURCES, 1)) \cap SourceDraws,
          page_count \in RandInt(2, 6) :
          \E paths \in random_sample(PAGES, Min(page_count, Len(PAGES))) :
             /\ frame' = Prepare(client_id, lang, device, rv, paths)
             /\ SESSION_NUMBER_BY_CLIENT' =
                    next_session_number(SESSION_NUMBER_BY_CLIENT, client_id)
             /\ started' = Append(started,
                    [client_id |-> client_id,
                     ga_session_id |-> frame'.ga_session_id,
                     ga_session_number |-> frame'.ga_session_number])
    /\ trace' = << >>
    /\ last' = None
    /\ pc' = "session_start"
    /\ UNCHANGED <<env, call, now, uuids, loop_i, options, r, chosen>>

SessionStartRequest ==
    Request(event_payload(frame.client_id,
        << [name |-> "session_start",
            params |-> [ga_session_id |-> frame.ga_session_id,
                        ga_session_number |-> frame.ga_session_number,
                        language |-> frame.lang,
                        screen_resolution |-> frame.device.screen_resolution,
                        platform |-> frame.device.platform,
                        os_hint |-> frame.device.os_hint,
                        engagement_time_msec |-> SessionStartEngagement]] >>,
        Some(At(0)), Some(frame.user_props)), frame.device.user_agent)

\* lines 267-282
SendSessionStart ==
    /\ pc = "session_start"
    /\ Post(SessionStartRequest)
    /\ Returned("first_page_view")
    /\ UNCHANGED <<env, call, SESSION_NUMBER_BY_CLIENT, now, frame, uuids, loop_i, started,
                   options, r, chosen>>

FirstPageViewRequest(engagement) ==
    LET pv1_params ==
            Update([ga_session_id |-> frame.ga_session_id,
                    ga_session_number |-> frame.ga_session_number,
                    page_location |-> frame.first_url,
                    page_title |-> PageTitle(frame.paths[1]),
                    language |-> frame.lang,
                    screen_resolution |-> frame.device.screen_resolution,
                    platform |-> frame.device.platform,
                    os_hint |-> frame.device.os_hint,
                    engagement_time_msec |-> engagement],
                   IF Truthy(frame.page_referrer)
                   THEN [page_referrer |-> frame.page_referrer] ELSE << >>)
    IN  Request(event_payload(frame.client_id,
            << [name |-> "page_view", params |-> pv1_params] >>,
            Some(At(100)), Some(frame.user_props)), frame.device.user_agent)

\* lines 284-301
SendFirstPageView ==
    /\ pc = "first_page_view"
    /\ \E engagement \in FirstPageViewEngagement : Post(FirstPageViewRequest(engagement))
    /\ Returned("scroll")
    /\ UNCHANGED <<env, call, SESSION_NUMBER_BY_CLIENT, now, frame, uuids, loop_i, started,
                   options, r, chosen>>

ScrollRequest(engagement) ==
    Request(event_payload(frame.client_id,
        << [name |-> "scroll",
            params |-> [ga_session_id |-> frame.ga_session_id,
                        ga_session_number |-> frame.ga_session_number,
                        language |-> frame.lang,
                        engagement_time_msec |-> engagement]] >>,
        Some(At(12000)), Some(frame.user_props)), frame.device.user_agent)

\* lines 303-313, random.random() < 0.75
SendScroll ==
    /\ pc = "scroll"
    /\ \E engagement \in ScrollEngagement : Post(ScrollRequest(engagement))
    /\ Returned("page_views")
    /\ UNCHANGED <<env, call, SESSION_NUMBER_BY_CLIENT, now, frame, uuids, loop_i, started,
                   options, r, chosen>>

\* line 304, random.random() >= 0.75
SkipScroll ==
    /\ pc = "scroll"
    /\ pc' = "page_views"
    /\ UNCHANGED <<env, call, SESSION_NUMBER_BY_CLIENT, now, frame, trace, last, uuids, loop_i,
                   started, options, r, chosen>>

PageViewRequestWithAcquisition(path, engagement) ==
    Request(event_payload(frame.client_id,
        << [name |-> "page_view",
            params |-> [ga_session_id |-> frame.ga_session_id,
                        ga_session_number |-> frame.ga_session_number,
                        page_location |-> [frame.first_url EXCEPT !.path = path],
                        page_title |-> PageTitle(path),
                        language |-> frame.lang,
                        engagement_time_msec |-> engagement]] >>,
        Some(At(frame.t_cursor)), Some(frame.user_props)), frame.device.user_agent)

PageViewRequest(path, engagement) ==
    Request(event_payload(frame.client_id,
        << [name |-> "page_view",
            params |-> [ga_session_id |-> frame.ga_session_id,
                        ga_session_number |-> frame.ga_session_number,
                        page_location |-> BareUrl(path),
                        page_title |-> PageTitle(path),
                        language |-> frame.lang,
                        engagement_time_msec |-> engagement]] >>,
        Some(At(frame.t_cursor)), Some(frame.user_props)), frame.device.user_agent)

\* lines 315-330, one iteration of the loop over paths[1:]
SendPageView ==
    /\ pc = "page_views"
    /\ frame.next_path <= Len(frame.paths)
    /\ \E engagement \in PageViewEngagement :
          Post(PageViewRequest(frame.paths[frame.next_path], engagement))
    /\ Returned(pc)
    /\ IF pc' = "crashed" THEN frame' = frame
       ELSE \E step \in CursorStep :
               frame' = [frame EXCEPT !.next_path = @ + 1, !.t_cursor = @ + step]
    /\ UNCHANGED <<env, call, SESSION_NUMBER_BY_CLIENT, now, uuids, loop_i, started,
                   options, r, chosen>>

\* offset_ms of lines 362, 365, 368 and 380
ViewItemOffset == 4000

AddToCartOffset == 8000

BeginCheckoutOffsetEarly == 13000 - 5000

BeginCheckoutOffset == 13000

PurchaseOffset == 22000

\* lines 339-345
Item(product) ==
    [item_id |-> product.id, item_name |-> product.name,
     item_category |-> product.category, price |-> product.price, quantity |-> 1]

\* lines 347-360
send_ecom(name, extra_params, offset_ms, engagement) ==
    LET params == [ga_session_id |-> frame'.ga_session_id,
                   ga_session_number |-> frame'.ga_session_number,
                   currency |-> frame'.currency,
                   items |-> << Item(frame'.product) >>,
                   language |-> frame'.lang,
                   engagement_time_msec |-> engagement]
    IN  Post(Request(event_payload(frame'.client_id,
            << [name |-> name,
                params |-> IF extra_params # << >>
                           THEN Update(params, extra_params) ELSE params] >>,
            Some(micros_from_ms(frame'.base_ms + offset_ms)), Some(frame'.user_props)),
            frame'.device.user_agent))

\* lines 332-362, random.random() < 0.25: the funnel is entered
EnterFunnel ==
    /\ pc = "page_views"
    /\ frame.next_path > Len(frame.paths)
    /\ \E product \in random_choice(PRODUCTS), currency \in random_choice(CURRENCIES) :
          frame' = [frame EXCEPT !.product = product, !.currency = currency]
    /\ \E engagement \in EcomEngagement :
          send_ecom("view_item", [value |-> frame'.product.price], ViewItemOffset, engagement)
    /\ Returned("view_item")
    /\ UNCHANGED <<env, call, SESSION_NUMBER_BY_CLIENT, now, uuids, loop_i, started,
                   options, r, chosen>>

SkipFunnelViewingItem ==
    /\ pc = "page_views"
    /\ frame.next_path > Len(frame.paths)
    /\ Post(Request(event_payload(frame.client_id,
           << [name |-> "view_item",
               params |-> [ga_session_id |-> frame.ga_session_id,
                           ga_session_number |-> frame.ga_session_number,
                           language |-> frame.lang,
                           engagement_time_msec |-> 150]] >>,
           Some(At(4000)), Some(frame.user_props)), frame.device.user_agent))
    /\ pc' = "return"
    /\ UNCHANGED <<env, call, SESSION_NUMBER_BY_CLIENT, now, frame, uuids, loop_i,
                   started, options, r, chosen>>

\* line 333, random.random() >= 0.25
SkipFunnel ==
    /\ pc = "page_views"
    /\ frame.next_path > Len(frame.paths)
    /\ pc' = "return"
    /\ UNCHANGED <<env, call, SESSION_NUMBER_BY_CLIENT, now, frame, trace, last, uuids, loop_i,
                   started, options, r, chosen>>

AddToCartGateRepeating == pc \in {"view_item", "add_to_cart"}

\* line 364 is nested in the funnel block, after the view_item of line 362
AddToCartGate == pc = "view_item"

\* line 367 is nested in the block of line 364, after add_to_cart
BeginCheckoutGate == pc = "add_to_cart"

PurchaseGateFlat == pc \in {"add_to_cart", "begin_checkout"}

\* line 370 is nested in the block of line 367, after begin_checkout
PurchaseGate == pc = "begin_checkout"

\* lines 364-365, random.random() < 0.60
AddToCart ==
    /\ AddToCartGate
    /\ frame' = frame
    /\ \E engagement \in EcomEngagement :
          send_ecom("add_to_cart", [value |-> frame.product.price], AddToCartOffset, engagement)
    /\ Returned("add_to_cart")
    /\ UNCHANGED <<env, call, SESSION_NUMBER_BY_CLIENT, now, uuids, loop_i, started,
                   options, r, chosen>>

\* lines 367-368, random.random() < 0.55
BeginCheckout ==
    /\ BeginCheckoutGate
    /\ frame' = frame
    /\ \E engagement \in EcomEngagement :
          send_ecom("begin_checkout", [value |-> frame.product.price], BeginCheckoutOffset, engagement)
    /\ Returned("begin_checkout")
    /\ UNCHANGED <<env, call, SESSION_NUMBER_BY_CLIENT, now, uuids, loop_i, started,
                   options, r, chosen>>

\* lines 370-381, random.random() < 0.35; uuid4() yields a value not seen before
Purchase ==
    /\ PurchaseGate
    /\ frame' = frame
    /\ uuids' = uuids + 1
    /\ \E engagement \in EcomEngagement :
          send_ecom("purchase",
                    [transaction_id |-> uuids', value |-> frame.product.price,
                     tax |-> frame.product.price \div 10, shipping |-> 0],
                    PurchaseOffset, engagement)
    /\ Returned("return")
    /\ UNCHANGED <<env, call, SESSION_NUMBER_BY_CLIENT, now, loop_i, started, options, r, chosen>>

\* lines 364, 367, 370: the coin-flip of the next stage fails
StopFunnel ==
    /\ pc \in {"view_item", "add_to_cart", "begin_checkout"}
    /\ pc' = "return"
    /\ UNCHANGED <<env, call, SESSION_NUMBER_BY_CLIENT, now, frame, trace, last, uuids, loop_i,
                   started, options, r, chosen>>

(***************************************************************************)
(* Spec: one call simulate_one_session(random.choice(CLIENT_ID_POOL)) made *)
(* by main() right after start-up.                                         *)
(***************************************************************************)
NoCall == [client_id |-> 0, returned |-> 0]

Fresh ==
    /\ call = NoCall
    /\ SESSION_NUMBER_BY_CLIENT = [c \in PoolIds |-> 0]
    /\ now = 0
    /\ frame = NoFrame
    /\ trace = << >>
    /\ last = None
    /\ uuids = 0
    /\ loop_i = 0
    /\ started = << >>
    /\ options = << >>
    /\ r = 0
    /\ chosen = 0

Init == pc = "call" /\ env = DebugEnv /\ Fresh

Next ==
    \/ StartSession
    \/ SendSessionStart
    \/ SendFirstPageView
    \/ SendScroll
    \/ SkipScroll
    \/ SendPageView
    \/ EnterFunnel
    \/ SkipFunnel
    \/ AddToCart
    \/ BeginCheckout
    \/ Purchase
    \/ StopFunnel

Spec == Init /\ [][Next]_vars

(***************************************************************************)
(* SpecRun: main().  One action runs a whole call of simulate_one_session: *)
(* what it leaves behind in the run is the counter it advanced, the key    *)
(* and ordinal it used, the uuid4 values it drew and the time its posts    *)
(* took.                                                                   *)
(***************************************************************************)
\* the time the posts of one session block for, in ms (requests.post, timeout=20)
PostTime == {0, MaxPostMs}

\* time.sleep(random.uniform(0.2, 0.6)), in ms
SleepTime == RandInt(200, 600)

\* lines 386-388
RunSession ==
    /\ pc = "main"
    /\ loop_i < SESSIONS_PER_RUN
    /\ \E client_id \in random_choice(CLIENT_ID_POOL),
          lang \in random_choice(LANGUAGES),
          device \in pick_device_profile,
          rv \in random_uniform(Total(TRAFFIC_SOURCES, 1)) \cap SourceDraws,
          page_count \in RandInt(2, 6) :
          \E paths \in random_sample(PAGES, Min(page_count, Len(PAGES))) :
             LET f == Prepare(client_id, lang, device, rv, paths)
             IN  /\ SESSION_NUMBER_BY_CLIENT' =
                        next_session_number(SESSION_NUMBER_BY_CLIENT, client_id)
                 /\ started' = Append(started,
                        [client_id |-> f.client_id,
                         ga_session_id |-> f.ga_session_id,
                         ga_session_number |-> f.ga_session_number])
    /\ \E purchased \in Coin : uuids' = IF purchased THEN uuids + 1 ELSE uuids
    /\ \E took \in PostTime : now' = now + took
    /\ pc' = "sleep"
    /\ UNCHANGED <<env, call, frame, trace, last, loop_i, options, r, chosen>>

\* line 388: print_validation raises for the response to one of the
\* session's posts, and the exception leaves main()
AbortSession ==
    /\ pc = "main"
    /\ loop_i < SESSIONS_PER_RUN
    /\ \E resp \in Responses : print_validation(send_mp(resp).data)
    /\ \E client_id \in random_choice(CLIENT_ID_POOL) :
          /\ SESSION_NUMBER_BY_CLIENT' =
                 next_session_number(SESSION_NUMBER_BY_CLIENT, client_id)
          /\ started' = Append(started,
                 [client_id |-> client_id,
                  ga_session_id |-> SessionKey(now),
                  ga_session_number |-> SESSION_NUMBER_BY_CLIENT'[client_id]])
    /\ \E purchased \in Coin : uuids' = IF purchased THEN uuids + 1 ELSE uuids
    /\ \E took \in PostTime : now' = now + took
    /\ pc' = "crashed"
    /\ UNCHANGED <<env, call, frame, trace, last, loop_i, options, r, chosen>>

\* line 389 and the next iteration of the for loop
Sleep ==
    /\ pc = "sleep"
    /\ \E slept \in SleepTime : now' = now + slept
    /\ loop_i' = loop_i + 1
    /\ pc' = "main"
    /\ UNCHANGED <<env, call, SESSION_NUMBER_BY_CLIENT, frame, trace, last, uuids, started,
                   options, r, chosen>>

\* line 386: range(SESSIONS_PER_RUN) is exhausted and main() returns
Finish ==
    /\ pc = "main"
    /\ loop_i >= SESSIONS_PER_RUN
    /\ pc' = "done"
    /\ UNCHANGED <<env, call, SESSION_NUMBER_BY_CLIENT, now, frame, trace, last, uuids, loop_i,
                   started, options, r, chosen>>

InitRun == pc = "main" /\ env = DebugEnv /\ Fresh

NextRun == RunSession \/ AbortSession \/ Sleep \/ Finish

SpecRun == InitRun /\ [][NextRun]_vars

\* main() runs in one thread that is never suspended for good, and every
\* call of the transport returns: a step that can be taken is taken
SpecRunFair == SpecRun /\ WF_vars(NextRun)

(***************************************************************************)
(* SpecStartup: the module's start-up (lines 10-15 and 180-181) under any  *)
(* environment, followed by main().                                        *)
(***************************************************************************)
\* what a credential variable may be: unset, empty, blank, a value
CredentialValues ==
    {Nothing, Some(<< >>), Some(<<" ", "\t">>), Some(<<" ", "G", "1", " ">>)}

ModeValues == {Nothing, Some(<<" ", "D", "e", "b", "u", "g">>)}

Envs == [MEASUREMENT_ID : CredentialValues, API_SECRET : CredentialValues,
         SIMULATOR_MODE : ModeValues]

\* lines 14-15: raise SystemExit
MissingCredentials ==
    /\ pc = "startup"
    /\ MEASUREMENT_ID = << >> \/ API_SECRET = << >>
    /\ pc' = "exit"
    /\ UNCHANGED <<env, call, SESSION_NUMBER_BY_CLIENT, now, frame, trace, last, uuids,
                   loop_i, started, options, r, chosen>>

\* lines 14-181 and 391-392: the credentials are there, the pool and the
\* counters are built and main() is called
BuildPool ==
    /\ pc = "startup"
    /\ ~(MEASUREMENT_ID = << >> \/ API_SECRET = << >>)
    /\ SESSION_NUMBER_BY_CLIENT' = [c \in PoolIds |-> 0]
    /\ pc' = "main"
    /\ UNCHANGED <<env, call, now, frame, trace, last, uuids, loop_i, started,
                   options, r, chosen>>

InitStartup ==
    /\ pc = "startup"
    /\ env \in Envs
    /\ call = NoCall
    /\ SESSION_NUMBER_BY_CLIENT = << >>
    /\ now = 0
    /\ frame = NoFrame
    /\ trace = << >>
    /\ last = None
    /\ uuids = 0
    /\ loop_i = 0
    /\ started = << >>
    /\ options = << >>
    /\ r = 0
    /\ chosen = 0

NextStartup == MissingCredentials \/ BuildPool \/ NextRun

SpecStartup == InitStartup /\ [][NextStartup]_vars

(***************************************************************************)
(* SpecV1: one call simulate_session(client_id, purchase_chance) of        *)
(* src/simulator-v1.py.  frame holds its locals, trace the payloads it     *)
(* handed to send_event.                                                   *)
(***************************************************************************)
V1_TRAFFIC_SOURCES == <<
    [medium |-> "organic", source |-> "google"],
    [medium |-> "organic", source |-> "bing"],
    [medium |-> "organic", source |-> "yahoo"],
    [medium |-> "organic", source |-> "duckduckgo"],
    [medium |-> "cpc", source |-> "google", campaign |-> "spring+promotion"],
    [medium |-> "cpc", source |-> "google", campaign |-> "performance+max"],
    [medium |-> "cpc", source |-> "google", campaign |-> "branded"],
    [medium |-> "email", source |-> "newsletter", campaign |-> "monthly+update"],
    [medium |-> "referral", source |-> "facebook.com"],
    [medium |-> "referral", source |-> "l.instagram.com"],
    [medium |-> "paid", source |-> "facebook.com", campaign |-> "winter+promotion"],
    [medium |-> "referral", source |-> "linkedin.com"],
    [medium |-> "paid", source |-> "linkedin.com", campaign |-> "summer+promotion"],
    [medium |-> "referral", source |-> "benjaminmangold.com"],
    [medium |-> "referral", source |-> "youtube.com"],
    [medium |-> "(none)", source |-> "(direct)"],
    [medium |-> "referral", source |-> "chatgpt.com"],
    [medium |-> "referral", source |-> "gemini.google.com"],
    [medium |-> "(not set)", source |-> "chatgpt.com"] >>

V1_PAGES == << "/home", "/products", "/products/item1", "/cart",
               "/checkout", "/thank-you", "/about", "/blog", "/contact" >>

V1_LANGUAGES == << "en", "en-US", "en-GB", "fr", "de", "es" >>

DEVICES == << "mobile", "tablet", "desktop" >>

COUNTRIES == << "AU", "US", "GB", "DE", "IN", "CA" >>

\* prices in cents
V1_PRODUCTS == <<
    [id |-> "sku_101", name |-> "Wireless Mouse", price |-> 2999],
    [id |-> "sku_102", name |-> "Mechanical Keyboard", price |-> 8999],
    [id |-> "sku_103", name |-> "USB-C Hub", price |-> 4995],
    [id |-> "sku_104", name |-> "Laptop Stand", price |-> 3950],
    [id |-> "sku_105", name |-> "Noise Cancelling Headphones", price |-> 12999],
    [id |-> "sku_106", name |-> "Portable SSD 1TB", price |-> 10999],
    [id |-> "sku_107", name |-> "Webcam 1080p", price |-> 5900],
    [id |-> "sku_108", name |-> "Bluetooth Speaker", price |-> 7995],
    [id |-> "sku_109", name |-> "Smartphone Tripod", price |-> 2400],
    [id |-> "sku_110", name |-> "Desk Lamp", price |-> 4500] >>

\* path.strip('/').title()
V1_PageTitle(path) ==
    CASE path = "/home" -> "Home"
      [] path = "/products" -> "Products"
      [] path = "/products/item1" -> "Products/Item1"
      [] path = "/cart" -> "Cart"
      [] path = "/checkout" -> "Checkout"
      [] path = "/thank-you" -> "Thank-You"
      [] path = "/about" -> "About"
      [] path = "/blog" -> "Blog"
      [] path = "/contact" -> "Contact"

\* random.random() of line 58, in hundredths: one value on each side of
\* the thresholds 0.4 and 0.6
V1_Rolls == {0, 39, 40, 59, 60, 99}

\* lines 57-68: the sources the roll may yield
weighted_random_traffic_source(roll) ==
    IF roll < 40 THEN {[medium |-> "organic", source |-> "google"]}
    ELSE IF roll < 60 THEN {[medium |-> "(none)", source |-> "(direct)"]}
    ELSE random_choice(SelectSeq(V1_TRAFFIC_SOURCES,
            LAMBDA ts : /\ ~(ts.medium = "organic" /\ ts.source = "google")
                        /\ ~(ts.medium = "(none)" /\ ts.source = "(direct)")))

\* lines 70-73: the payload is posted; the status is only printed
send_event(payload) ==
    /\ trace' = Append(trace, [payload |-> payload])
    /\ last' = [payload |-> payload]

\* lines 76-89
V1_StartSession ==
    /\ pc = "v1_call"
    /\ uuids' = uuids + 1
    /\ \E client_id \in 1 .. USER_POOL_SIZE,
          user_lang \in random_choice(V1_LANGUAGES),
          user_device \in random_choice(DEVICES),
          user_country \in random_choice(COUNTRIES),
          roll \in V1_Rolls :
          \E traffic \in weighted_random_traffic_source(roll) :
             frame' = [client_id |-> client_id,
                       session_id |-> uuids',
                       traffic |-> traffic,
                       common_payload |->
                           [client_id |-> client_id,
                            user_properties |->
                                [device_category |-> [value |-> user_device],
                                 language |-> [value |-> user_lang],
                                 geo_country |-> [value |-> user_country]]],
                       pageview_paths |-> << >>,
                       next_path |-> 1]
    /\ trace' = << >>
    /\ last' = None
    /\ pc' = "v1_session_start"
    /\ UNCHANGED <<env, call, SESSION_NUMBER_BY_CLIENT, now, loop_i, started,
                   options, r, chosen>>

\* lines 91-103: session_start, then the pages are sampled
V1_SendSessionStart ==
    /\ pc = "v1_session_start"
    /\ \E engagement \in RandInt(100, 500) :
          send_event(Update(frame.common_payload,
              [events |-> << [name |-> "session_start",
                              params |-> [session_id |-> frame.session_id,
                                          engagement_time_msec |-> engagement]] >>]))
    /\ \E k \in RandInt(2, 5) :
          \E paths \in random_sample(V1_PAGES, k) :
             frame' = [frame EXCEPT !.pageview_paths = paths]
    /\ pc' = "v1_page_views"
    /\ UNCHANGED <<env, call, SESSION_NUMBER_BY_CLIENT, now, uuids, loop_i, started,
                   options, r, chosen>>

\* lines 108-116
V1_PageViewParams(path, engagement) ==
    [page_location |-> <<"https://www.lovesdata-test.com", path>>,
     page_title |-> V1_PageTitle(path),
     session_id |-> frame.session_id,
     engagement_time_msec |-> engagement,
     source |-> frame.traffic.source,
     medium |-> frame.traffic.medium,
     campaign |-> IF "campaign" \in DOMAIN frame.traffic
                  THEN frame.traffic.campaign ELSE "(not set)"]

\* lines 104-121, one iteration of the loop over pageview_paths
V1_SendPageView ==
    /\ pc = "v1_page_views"
    /\ frame.next_path <= Len(frame.pageview_paths)
    /\ \E engagement \in RandInt(100, 600) :
          send_event(Update(frame.common_payload,
              [events |-> << [name |-> "page_view",
                              params |-> V1_PageViewParams(
                                  frame.pageview_paths[frame.next_path],
                                  engagement)] >>]))
    /\ frame' = [frame EXCEPT !.next_path = @ + 1]
    /\ \E slept \in RandInt(500, 1000) : now' = now + slept
    /\ UNCHANGED <<env, call, pc, SESSION_NUMBER_BY_CLIENT, uuids, loop_i, started,
                   options, r, chosen>>

\* line 123: the purchase is decided right after the page_view loop
V1_PurchaseGate ==
    /\ pc = "v1_page_views"
    /\ frame.next_path > Len(frame.pageview_paths)

\* lines 123-143, random.random() < purchase_chance
V1_Purchase ==
    /\ V1_PurchaseGate
    /\ uuids' = uuids + 1
    /\ \E product \in random_choice(V1_PRODUCTS) :
          send_event(Update(frame.common_payload,
              [events |-> << [name |-> "purchase",
                              params |-> [transaction_id |-> uuids',
                                          currency |-> "AUD",
                                          value |-> product.price,
                                          items |-> << [item_id |-> product.id,
                                                        item_name |-> product.name,
                                                        price |-> product.price,
                                                        quantity |-> 1] >>,
                                          session_id |-> frame.session_id]] >>]))
    /\ pc' = "v1_return"
    /\ UNCHANGED <<env, call, SESSION_NUMBER_BY_CLIENT, now, frame, loop_i, started,
                   options, r, chosen>>

\* line 123, random.random() >= purchase_chance
V1_NoPurchase ==
    /\ pc = "v1_page_views"
    /\ frame.next_path > Len(frame.pageview_paths)
    /\ pc' = "v1_return"
    /\ UNCHANGED <<env, call, SESSION_NUMBER_BY_CLIENT, now, frame, trace, last, uuids,
                   loop_i, started, options, r, chosen>>

InitV1 == pc = "v1_call" /\ env = DebugEnv /\ Fresh

NextV1 ==
    \/ V1_StartSession
    \/ V1_SendSessionStart
    \/ V1_SendPageView
    \/ V1_Purchase
    \/ V1_NoPurchase

SpecV1 == InitV1 /\ [][NextV1]_vars

(***************************************************************************)
(* SpecChoice: weighted_choice(options) on option lists of at most         *)
(* MaxOptions entries, each with a weight of 0 .. MaxWeight or without a   *)
(* "weight" key.                                                           *)
(***************************************************************************)
OptionValues(i) == {[id |-> i]} \cup {[id |-> i, weight |-> w] : w \in 0 .. MaxWeight}

OptionLists ==
    UNION { { opts \in [1 .. n -> UNION {OptionValues(i) : i \in 1 .. n}] :
                \A i \in 1 .. n : opts[i].id = i } : n \in 0 .. MaxOptions }

\* lines 103-104
DrawUniform ==
    /\ pc = "uniform"
    /\ r' \in random_uniform(Total(options, 1))
    /\ pc' = "walk"
    /\ UNCHANGED <<env, call, SESSION_NUMBER_BY_CLIENT, now, frame, trace, last, uuids, loop_i,
                   started, options, chosen>>

\* lines 105-111
ChoiceWalk ==
    /\ pc = "walk"
    /\ chosen' = weighted_choice(options, r)
    /\ pc' = IF chosen' = 0 THEN "raised" ELSE "returned"
    /\ UNCHANGED <<env, call, SESSION_NUMBER_BY_CLIENT, now, frame, trace, last, uuids, loop_i,
                   started, options, r>>

InitChoice ==
    /\ pc = "uniform"
    /\ env = DebugEnv
    /\ call = NoCall
    /\ SESSION_NUMBER_BY_CLIENT = [c \in PoolIds |-> 0]
    /\ now = 0
    /\ frame = NoFrame
    /\ trace = << >>
    /\ last = None
    /\ uuids = 0
    /\ loop_i = 0
    /\ started = << >>
    /\ options \in OptionLists
    /\ r = 0
    /\ chosen = 0

NextChoice == DrawUniform \/ ChoiceWalk

SpecChoice == InitChoice /\ [][NextChoice]_vars

(***************************************************************************)
(* SpecOrdinal: next_session_number(client_id) called at most MaxCalls     *)
(* times, with identities of the pool and with one that is not in it.      *)
(***************************************************************************)
\* an identity that was never put in CLIENT_ID_POOL
UnknownId == make_ga_like_client_id(USER_POOL_SIZE + 1)

\* lines 183-185
CallNextSessionNumber ==
    /\ pc = "ordinal"
    /\ loop_i < MaxCalls
    /\ \E client_id \in PoolIds \cup {UnknownId} :
          /\ SESSION_NUMBER_BY_CLIENT' =
                next_session_number(SESSION_NUMBER_BY_CLIENT, client_id)
          /\ call' = [client_id |-> client_id,
                      returned |-> SESSION_NUMBER_BY_CLIENT'[client_id]]
    /\ loop_i' = loop_i + 1
    /\ UNCHANGED <<pc, now, frame, trace, last, uuids, started, options, r, chosen, env>>

InitOrdinal == pc = "ordinal" /\ env = DebugEnv /\ Fresh

NextOrdinal == CallNextSessionNumber

SpecOrdinal == InitOrdinal /\ [][NextOrdinal]_vars

(***************************************************************************)
(* Properties of one session (Spec).                                       *)
(***************************************************************************)
Name(i) == EventOf(trace[i]).name

Params(i) == EventOf(trace[i]).params

Sent(name) == \E i \in DOMAIN trace : Name(i) = name

\* an earlier event of the session has this name
SentBefore(i, name) == \E j \in 1 .. i - 1 : Name(j) = name

\* the event carries UTM parameters in page_location, or a page_referrer
HasAcquisition(req) ==
    LET p == EventOf(req).params
    IN  \/ "page_referrer" \in DOMAIN p
        \/ "page_location" \in DOMAIN p /\ p.page_location.query # << >>

AcquisitionEvents == {i \in DOMAIN trace : HasAcquisition(trace[i])}

\* C1: the offsets of the events of a session, in the order they are posted,
\* never decrease, and session_start comes first with offset 0.
C1_OffsetsNonDecreasing ==
    /\ \A i \in 1 .. Len(trace) - 1 : Offset(trace[i]) <= Offset(trace[i + 1])
    /\ trace # << >> => Name(1) = "session_start" /\ Offset(trace[1]) = 0

\* C2: purchase is posted only after begin_checkout, begin_checkout only after
\* add_to_cart, add_to_cart only after view_item, all in the same session.
C2_FunnelGated ==
    \A i \in DOMAIN trace :
        /\ Name(i) = "purchase" => SentBefore(i, "begin_checkout")
        /\ Name(i) = "begin_checkout" => SentBefore(i, "add_to_cart")
        /\ Name(i) = "add_to_cart" => SentBefore(i, "view_item")

C2_Witness == pc = "return" /\ Sent("purchase")

\* C5: every event posted carries an engagement_time_msec greater than 0.
C5_EngagementPositive ==
    trace # << >> =>
        /\ "engagement_time_msec" \in DOMAIN EventOf(last).params
        /\ EventOf(last).params.engagement_time_msec > 0

C5_Witness ==
    /\ trace # << >>
    /\ EventOf(last).name = "purchase"
    /\ {Name(i) : i \in DOMAIN trace} =
          {"session_start", "page_view", "scroll", "view_item", "add_to_cart",
           "begin_checkout", "purchase"}

\* C6 as stated: for every traffic source, once the landing page_view is
\* posted, exactly one event of the session carries acquisition fields and
\* it is the landing page_view (the second event).
C6_AcquisitionOnExactlyOne ==
    /\ Len(trace) < 2 => AcquisitionEvents = {}
    /\ Len(trace) >= 2 => AcquisitionEvents = {2}

\* C6 as amended: for utm and referral sources the landing page_view is the
\* one event carrying acquisition fields; for direct and unknown sources no
\* event carries any; no event but the landing page_view ever carries them.
C6_AcquisitionOnLandingOnly ==
    /\ Len(trace) < 2 => AcquisitionEvents = {}
    /\ Len(trace) >= 2 =>
          /\ Name(2) = "page_view"
          /\ AcquisitionEvents =
                IF frame.src.type \in {"utm", "referral"} THEN {2} ELSE {}

C6_Witness ==
    /\ pc = "return"
    /\ Len(trace) >= 4
    /\ frame.src.type = "direct"
    /\ AcquisitionEvents = {}

SessionContextKeys ==
    {"ga_session_id", "ga_session_number", "language",
     "screen_resolution", "platform", "os_hint"}

\* C7: every event of a session carries ga_session_id, ga_session_number,
\* language, screen_resolution, platform and os_hint, each with the value
\* session_start carries.
C7_ContextOnEveryEvent ==
    \A i \in DOMAIN trace : \A k \in SessionContextKeys :
        /\ k \in DOMAIN Params(i)
        /\ Params(i)[k] = Params(1)[k]

\* C8: user_properties is in the record of the first event of the session
\* and in the record of no later event.
C8_UserPropertiesOnFirstOnly ==
    \A i \in DOMAIN trace : ("user_properties" \in DOMAIN trace[i].payload) <=> (i = 1)

(***************************************************************************)
(* Properties of a run (SpecRun).                                          *)
(***************************************************************************)
\* the sessions of identity c, in the order they were started
SessionsOf(c) == SelectSeq(started, LAMBDA e : e.client_id = c)

\* C3: every event of a session carries the session's key, and two distinct
\* sessions of a run never have the same key.
C3_SessionKeysDistinct ==
    /\ \A i \in DOMAIN trace : Params(i).ga_session_id = frame.ga_session_id
    /\ \A i, j \in DOMAIN started :
          i # j => started[i].ga_session_id # started[j].ga_session_id

\* C4: the ordinals of an identity's sessions are 1, 2, ..., k in the order
\* the sessions were started, and its counter is k.
C4_OrdinalsAreOneToK ==
    \A c \in PoolIds :
        /\ \A i \in DOMAIN SessionsOf(c) : SessionsOf(c)[i].ga_session_number = i
        /\ SESSION_NUMBER_BY_CLIENT[c] = Len(SessionsOf(c))

C4_Witness ==
    /\ pc = "done"
    /\ \E c \in PoolIds : Len(SessionsOf(c)) >= 2
    /\ \E c \in PoolIds : Len(SessionsOf(c)) = 1

(***************************************************************************)
(* Properties of weighted_choice (SpecChoice).                             *)
(***************************************************************************)
\* the weights of the first i options, added up
Cumulative(opts, i) == Total(SubSeq(opts, 1, i), 1)

\* the first option, in list order, whose cumulative weight exceeds rv
FirstExceeding(opts, rv) ==
    CHOOSE i \in DOMAIN opts :
        /\ Cumulative(opts, i) > rv
        /\ \A j \in 1 .. i - 1 : Cumulative(opts, j) <= rv

\* C9: on a non-empty list of positive weights and 0 <= r < total, the option
\* returned is the first whose cumulative weight exceeds r.
C9_FirstExceedingReturned ==
    ( /\ pc \in {"returned", "raised"}
      /\ options # << >>
      /\ \A i \in DOMAIN options : Weight(options[i]) > 0
      /\ 0 <= r /\ r < Total(options, 1) )
    => chosen = FirstExceeding(options, r)

\* C10: on an empty list, or on a list whose weights add up to zero, the call
\* ends in an error and returns no option.
C10_NothingToChooseRaises ==
    ( /\ pc \in {"returned", "raised"}
      /\ (options = << >> \/ Total(options, 1) = 0) )
    => pc = "raised" /\ chosen = 0

(***************************************************************************)
(* Properties of next_session_number (SpecOrdinal).                        *)
(***************************************************************************)
\* C11: a call with an identity that is not in the pool returns no ordinal
\* and creates no counter for that identity.
C11_UnknownIdentityRejected ==
    /\ call.client_id = UnknownId => call.returned = 0
    /\ UnknownId \notin DOMAIN SESSION_NUMBER_BY_CLIENT

(***************************************************************************)
(* Properties of the transport (Spec).                                     *)
(***************************************************************************)
\* C12: whatever status and body the endpoint answers with, the run is not
\* aborted: no exception leaves the session after an event was posted.
C12_ResponseNeverAborts == pc # "crashed"

(***************************************************************************)
(* Properties of start-up (SpecStartup).                                   *)
(***************************************************************************)
\* the variable is unset, or set to nothing but whitespace
Blank(value) ==
    value = Nothing \/ \A i \in DOMAIN value[1] : value[1][i] \in Whitespace

\* C13: when MEASUREMENT_ID or API_SECRET is unset, empty or blank, start-up
\* stops at the fatal exit: no counter exists, no session was started, no
\* ordinal was assigned and nothing was posted.
C13_MissingCredentialIsFatal ==
    (Blank(env.MEASUREMENT_ID) \/ Blank(env.API_SECRET))
    => /\ pc \in {"startup", "exit"}
       /\ DOMAIN SESSION_NUMBER_BY_CLIENT = {}
       /\ started = << >>
       /\ trace = << >>
       /\ loop_i = 0

C13_Witness ==
    /\ pc = "exit"
    /\ env.MEASUREMENT_ID = Some(<<" ", "\t">>)
    /\ env.API_SECRET = Some(<<" ", "G", "1", " ">>)

(***************************************************************************)
(* Scenarios of one session (Spec).                                        *)
(***************************************************************************)
\* the session has returned with every funnel coin-flip having succeeded
AllCoinsSucceeded == pc = "return" /\ Sent("purchase")

\* the names posted are session_start, page_view, scroll?, page_view*,
\* view_item, add_to_cart, begin_checkout, purchase
ScenarioANames ==
    LET n == Len(trace)
        body == IF n >= 7 /\ Name(3) = "scroll" THEN 4 ELSE 3
    IN  /\ n >= 6
        /\ Name(1) = "session_start"
        /\ Name(2) = "page_view"
        /\ \A i \in body .. n - 4 : Name(i) = "page_view"
        /\ Name(n - 3) = "view_item"
        /\ Name(n - 2) = "add_to_cart"
        /\ Name(n - 1) = "begin_checkout"
        /\ Name(n) = "purchase"

\* C14: a session from the direct source in which the funnel is entered and
\* every coin-flip succeeds posts session_start, page_view, scroll?,
\* page_view*, view_item, add_to_cart, begin_checkout, purchase, at strictly
\* increasing offsets, with exactly one transaction_id.
C14_ScenarioA ==
    (AllCoinsSucceeded /\ frame.src.type = "direct")
    => /\ ScenarioANames
       /\ \A i \in 1 .. Len(trace) - 1 : Offset(trace[i]) < Offset(trace[i + 1])
       /\ Cardinality({i \in DOMAIN trace : "transaction_id" \in DOMAIN Params(i)}) = 1

\* the part of Scenario A that does not depend on the offsets
C14_NamesAndTransaction ==
    (AllCoinsSucceeded /\ frame.src.type = "direct")
    => /\ ScenarioANames
       /\ Cardinality({i \in DOMAIN trace : "transaction_id" \in DOMAIN Params(i)}) = 1

EcommerceNames == {"view_item", "add_to_cart", "begin_checkout", "purchase"}

\* the session has returned and the roll of line 333 had failed: no product
\* and no currency were drawn
EntryRollFailed == pc = "return" /\ frame.currency = None

\* C15: a session whose funnel-entry roll fails posts no view_item,
\* add_to_cart, begin_checkout or purchase.
C15_ScenarioB ==
    EntryRollFailed => \A i \in DOMAIN trace : Name(i) \notin EcommerceNames

C15_Witness ==
    /\ EntryRollFailed
    /\ Sent("scroll")
    /\ Len(trace) >= 5

(***************************************************************************)
(* Properties of one session of src/simulator-v1.py (SpecV1).              *)
(***************************************************************************)
\* C16: in a session of simulate_session, purchase is posted only after
\* view_item, add_to_cart and begin_checkout were posted in that session.
C16_V1PurchaseAfterAllStages ==
    \A i \in DOMAIN trace :
        Name(i) = "purchase" =>
            /\ SentBefore(i, "view_item")
            /\ SentBefore(i, "add_to_cart")
            /\ SentBefore(i, "begin_checkout")

\* the event carries source, medium or campaign
V1_HasAcquisition(i) == {"source", "medium", "campaign"} \cap DOMAIN Params(i) # {}

\* C17: in a session of simulate_session, source, medium and campaign are
\* attached to the first page_view and to no other event.
C17_V1AcquisitionOnFirstPageViewOnly ==
    \A i \in DOMAIN trace :
        V1_HasAcquisition(i) => Name(i) = "page_view" /\ ~SentBefore(i, "page_view")

(***************************************************************************)
(* Properties of the funnel of one session (Spec).                         *)
(***************************************************************************)
FunnelStages == << "view_item", "add_to_cart", "begin_checkout", "purchase" >>

\* the funnel events of the session, in the order they were posted
FunnelTrace == SelectSeq(trace, LAMBDA req : EventOf(req).name \in EcommerceNames)

\* C18: the funnel events of a session are view_item, add_to_cart,
\* begin_checkout, purchase in this order, cut off at some stage: each stage
\* is posted at most once and none after a later one; all of them carry the
\* same single item and the same currency.
C18_FunnelForwardOnly ==
    /\ Len(FunnelTrace) <= Len(FunnelStages)
    /\ \A k \in DOMAIN FunnelTrace :
          /\ EventOf(FunnelTrace[k]).name = FunnelStages[k]
          /\ Len(EventOf(FunnelTrace[k]).params.items) = 1
          /\ EventOf(FunnelTrace[k]).params.items = EventOf(FunnelTrace[1]).params.items
          /\ EventOf(FunnelTrace[k]).params.currency
                = EventOf(FunnelTrace[1]).params.currency

C18_Witness ==
    /\ pc = "return"
    /\ Len(FunnelTrace) = 4
    /\ EventOf(FunnelTrace[4]).params.currency = CURRENCIES[Len(CURRENCIES)]

\* C19: each funnel event of a session has an offset strictly greater than
\* the offset of the funnel event posted before it.
C19_FunnelOffsetsIncrease ==
    \A k \in 1 .. Len(FunnelTrace) - 1 :
        Offset(FunnelTrace[k]) < Offset(FunnelTrace[k + 1])

C19_Witness ==
    /\ pc = "return"
    /\ Len(FunnelTrace) = 4
    /\ Offset(FunnelTrace[1]) = 4000
    /\ Offset(FunnelTrace[4]) = 22000

(***************************************************************************)
(* Properties of the page views of one session (Spec).                     *)
(***************************************************************************)
\* the page_view events of the session, in the order they were posted
PageViewTrace == SelectSeq(trace, LAMBDA req : EventOf(req).name = "page_view")

ScrollTrace == SelectSeq(trace, LAMBDA req : EventOf(req).name = "scroll")

\* C20: the page_views are posted in sampled order, the landing page first;
\* each has an offset strictly greater than the page_view before it, and
\* each one after the landing page_view an offset strictly greater than the
\* scroll's.
C20_PageViewsInSampledOrder ==
    trace # << >> =>
        /\ Len(PageViewTrace) <= Len(frame.paths)
        /\ \A k \in DOMAIN PageViewTrace :
              EventOf(PageViewTrace[k]).params.page_location.path = frame.paths[k]
        /\ \A k \in 1 .. Len(PageViewTrace) - 1 :
              Offset(PageViewTrace[k]) < Offset(PageViewTrace[k + 1])
        /\ \A k \in 2 .. Len(PageViewTrace), j \in DOMAIN ScrollTrace :
              Offset(ScrollTrace[j]) < Offset(PageViewTrace[k])

C20_Witness ==
    /\ pc = "return"
    /\ Len(ScrollTrace) = 1
    /\ Len(PageViewTrace) = 6

\* the page a page_view event names
PathOf(req) == EventOf(req).params.page_location.path

\* the page_view loop of the session is over
PageViewsDone == pc \in {"view_item", "add_to_cart", "begin_checkout", "return"}

\* C21: the sampled pages are 2 to 6 pairwise distinct entries of PAGES, the
\* first page_view names the first of them, no two page_views name the same
\* page, and a session that has gone through its page_view loop has posted
\* exactly one page_view per sampled page.
C21_OnePageViewPerSampledPage ==
    pc # "call" =>
        /\ Len(frame.paths) \in 2 .. 6
        /\ \A k \in DOMAIN frame.paths :
              \E n \in DOMAIN PAGES : frame.paths[k] = PAGES[n]
        /\ \A j, k \in DOMAIN frame.paths : j # k => frame.paths[j] # frame.paths[k]
        /\ PageViewTrace # << >> => PathOf(PageViewTrace[1]) = frame.paths[1]
        /\ \A j, k \in DOMAIN PageViewTrace :
              j # k => PathOf(PageViewTrace[j]) # PathOf(PageViewTrace[k])
        /\ \A k \in DOMAIN PageViewTrace :
              \E n \in DOMAIN frame.paths : PathOf(PageViewTrace[k]) = frame.paths[n]
        /\ Len(PageViewTrace) <= Len(frame.paths)
        /\ PageViewsDone => Len(PageViewTrace) = Len(frame.paths)

C21_Witness ==
    /\ pc = "return"
    /\ Len(frame.paths) = 2
    /\ Len(PageViewTrace) = 2
    /\ ScrollTrace = << >>
    /\ FunnelTrace = << >>

(***************************************************************************)
(* Properties of the counters in a run (SpecRun).                          *)
(***************************************************************************)
\* the counters of the identities in ids, added up
RECURSIVE SumOfCounters(_)
SumOfCounters(ids) ==
    IF ids = {} THEN 0
    ELSE LET c == CHOOSE x \in ids : TRUE
         IN  SESSION_NUMBER_BY_CLIENT[c] + SumOfCounters(ids \ {c})

\* C22: next_session_number(c) adds one to the counter of c and changes no
\* other counter; the counters add up to the number of sessions started so
\* far, and an identity that was never picked has counter 0.
C22_OnlyOwnCounterAdvances ==
    /\ \A c \in PoolIds :
          LET after == next_session_number(SESSION_NUMBER_BY_CLIENT, c)
          IN  /\ DOMAIN after = DOMAIN SESSION_NUMBER_BY_CLIENT
              /\ after[c] = SESSION_NUMBER_BY_CLIENT[c] + 1
              /\ \A d \in PoolIds \ {c} : after[d] = SESSION_NUMBER_BY_CLIENT[d]
    /\ SumOfCounters(DOMAIN SESSION_NUMBER_BY_CLIENT) = Len(started)
    /\ \A c \in PoolIds : SessionsOf(c) = << >> => SESSION_NUMBER_BY_CLIENT[c] = 0

C22_Witness ==
    /\ pc = "done"
    /\ Len(started) = SESSIONS_PER_RUN
    /\ \E c \in PoolIds : SESSION_NUMBER_BY_CLIENT[c] = 0
    /\ \E c \in PoolIds : SESSION_NUMBER_BY_CLIENT[c] = SESSIONS_PER_RUN

(***************************************************************************)
(* Termination of a run (SpecRunFair) and the size of a session (Spec).    *)
(***************************************************************************)
\* C23: a run of main() whose transport calls all return ends after exactly
\* SESSIONS_PER_RUN sessions were simulated, one after the other.
C23_RunSimulatesAllSessions ==
    <>(pc = "done" /\ loop_i = SESSIONS_PER_RUN /\ Len(started) = SESSIONS_PER_RUN)

\* a run that is not cut short does end so
C23_RunEndsOrAborts ==
    <>(\/ pc = "done" /\ loop_i = SESSIONS_PER_RUN /\ Len(started) = SESSIONS_PER_RUN
       \/ pc = "crashed")

\* a session that returned has posted 3 to 12 events
C23_EventsPerSession == pc = "return" => Len(trace) \in 3 .. 12

====
